---- MODULE Spec2Model ----
(***************************************************************************)
(* TableConfiguration (kernel/src/table_configuration.rs): construction   *)
(* with try_new, incremental update with try_new_from, and the feature    *)
(* support / enablement predicates.                                        *)
(*                                                                         *)
(* Rust values are represented as follows.                                 *)
(*   Option<T>        None is <<>>, Some(x) is <<x>>                       *)
(*   Result<T, E>     [ok |-> TRUE, value |-> x] / [ok |-> FALSE, ...]     *)
(*   Vec<Feature>     the set of its elements (only membership is used)    *)
(*   HashMap<K, V>    a function whose domain is the set of present keys   *)
(***************************************************************************)
EXTENDS FiniteSets, Integers, Sequences, TLC

VARIABLES tc, call, result, steps, latest, http, ffi

vars == <<tc, call, result, steps, latest, http, ffi>>

----------------------------------------------------------------------------
(* Option and Result *)

None == <<>>

Some(x) == <<x>>

is_some(o) == o # None

unwrap(o) == o[1]

unwrap_or(o, d) == IF o = None THEN d ELSE o[1]

Ok(v) == [ok |-> TRUE, value |-> v]

Err(kind, msg) == [ok |-> FALSE, kind |-> kind, msg |-> msg]

----------------------------------------------------------------------------
(* Bounds *)

MaxVersion == 1

Versions == 0..MaxVersion

Roots == {"file:///a/", "file:///b/"}

----------------------------------------------------------------------------
(* Feature identifiers and table property keys *)

DeletionVectors == "deletionVectors"

TimestampWithoutTimezone == "timestampNtz"

VariantType == "variantType"

ColumnMapping == "columnMapping"

V2Checkpoint == "v2Checkpoint"

UnknownFeature == "unknown"

AppendOnly == "appendOnly"

Invariants == "invariants"

InCommitTimestamp == "inCommitTimestamp"

EnableChangeDataFeed == "delta.enableChangeDataFeed"

EnableDeletionVectors == "delta.enableDeletionVectors"

ColumnMappingModeKey == "delta.columnMapping.mode"

AppendOnlyKey == "delta.appendOnly"

EnableInCommitTimestamps == "delta.enableInCommitTimestamps"

InCommitTimestampEnablementVersion == "delta.inCommitTimestampEnablementVersion"

InCommitTimestampEnablementTimestamp ==
    "delta.inCommitTimestampEnablementTimestamp"

\* ColumnMappingMode::{None, Id, Name}
ModeNone == "none"

ModeId == "id"

ModeName == "name"

----------------------------------------------------------------------------
(* Protocol and Metadata values *)

Protocol(rv, wv, rf, wf) ==
    [min_reader_version |-> rv, min_writer_version |-> wv,
     reader_features |-> rf, writer_features |-> wf]

Metadata(schema_string, configuration) ==
    [schema_string |-> schema_string, configuration |-> configuration]

\* HashMap::new()
EmptyMap == [k \in {} |-> ""]

min_reader_version(protocol) == protocol.min_reader_version

min_writer_version(protocol) == protocol.min_writer_version

reader_features(protocol) == protocol.reader_features

has_reader_feature(protocol, feature) ==
    /\ is_some(protocol.reader_features)
    /\ feature \in unwrap(protocol.reader_features)

has_writer_feature(protocol, feature) ==
    /\ is_some(protocol.writer_features)
    /\ feature \in unwrap(protocol.writer_features)

\* ensure_supported_features(features, supported): every listed feature is
\* one of the supported ones
ensure_supported_features(features, supported) ==
    IF features \subseteq supported
    THEN Ok(TRUE)
    ELSE Err("Unsupported", "Unknown or unsupported features")

\* the reader features the kernel can read
SUPPORTED_READER_FEATURES ==
    {DeletionVectors, TimestampWithoutTimezone, VariantType, ColumnMapping,
     V2Checkpoint}

\* the writer features the kernel can write
SUPPORTED_WRITER_FEATURES ==
    {DeletionVectors, TimestampWithoutTimezone, VariantType, ColumnMapping,
     V2Checkpoint, AppendOnly, Invariants, InCommitTimestamp}

\* Protocol::ensure_write_supported: at writer version 7 the feature list is
\* checked against the supported features; a feature list at another writer
\* version is rejected; without a list only writer versions 1 and 2 pass
protocol_ensure_write_supported(protocol) ==
    IF is_some(protocol.writer_features) /\ protocol.min_writer_version = 7
    THEN ensure_supported_features(unwrap(protocol.writer_features),
                                   SUPPORTED_WRITER_FEATURES)
    ELSE IF is_some(protocol.writer_features)
    THEN Err("Unsupported",
             "Tables with min writer version != 7 should not have table features")
    ELSE IF protocol.min_writer_version \in {1, 2}
    THEN Ok(TRUE)
    ELSE Err("Unsupported", "Unsupported minimum writer version")

\* Protocol::ensure_read_supported: a feature list is checked against the
\* supported features at reader version 3; versions 1 and 2 carry no list
ensure_read_supported(protocol) ==
    IF protocol.min_reader_version = 3 /\ is_some(protocol.reader_features)
    THEN ensure_supported_features(unwrap(protocol.reader_features),
                                   SUPPORTED_READER_FEATURES)
    ELSE IF protocol.min_reader_version \in {1, 2}
            /\ protocol.reader_features = None
    THEN Ok(TRUE)
    ELSE Err("Unsupported", "Unsupported minimum reader version or features")

----------------------------------------------------------------------------
(* Schema: the serialized forms used here and what they parse to.  A field *)
(* is [name, type, annotated, invariants]; annotated means the field has   *)
(* the column mapping id and physical name in its metadata.                *)

Field(name, type, annotated, invariants) ==
    [name |-> name, type |-> type, annotated |-> annotated,
     invariants |-> invariants]

SchemaInt == "{fields:[{name:value,type:integer,metadata:{}}]}"

SchemaNtz == "{fields:[{name:ts,type:timestamp_ntz,metadata:{}}]}"

SchemaVariant == "{fields:[{name:v,type:variant,metadata:{}}]}"

SchemaMapped ==
    "{fields:[{name:value,type:integer,metadata:{columnMapping.id,physicalName}}]}"

SchemaNtzMapped ==
    "{fields:[{name:ts,type:timestamp_ntz,metadata:{columnMapping.id,physicalName}}]}"

SchemaNtzVariant ==
    "{fields:[{name:ts,type:timestamp_ntz,metadata:{}},{name:v,type:variant,metadata:{}}]}"

SchemaInvariants ==
    "{fields:[{name:value,type:integer,metadata:{delta.invariants}}]}"

SchemaMalformed == "{fields:"

\* Metadata::parse_schema
parse_schema(metadata) ==
    CASE metadata.schema_string = SchemaInt ->
            Ok(<<Field("value", "integer", FALSE, FALSE)>>)
      [] metadata.schema_string = SchemaNtz ->
            Ok(<<Field("ts", "timestamp_ntz", FALSE, FALSE)>>)
      [] metadata.schema_string = SchemaVariant ->
            Ok(<<Field("v", "variant", FALSE, FALSE)>>)
      [] metadata.schema_string = SchemaMapped ->
            Ok(<<Field("value", "integer", TRUE, FALSE)>>)
      [] metadata.schema_string = SchemaNtzMapped ->
            Ok(<<Field("ts", "timestamp_ntz", TRUE, FALSE)>>)
      [] metadata.schema_string = SchemaNtzVariant ->
            Ok(<<Field("ts", "timestamp_ntz", FALSE, FALSE),
                 Field("v", "variant", FALSE, FALSE)>>)
      [] metadata.schema_string = SchemaInvariants ->
            Ok(<<Field("value", "integer", FALSE, TRUE)>>)
      [] OTHER -> Err("Schema", "schema string is not a valid schema")

\* InvariantChecker::has_invariants: some field carries an invariant
\* expression
has_invariants(schema) ==
    \E i \in 1..Len(schema) : schema[i].invariants

----------------------------------------------------------------------------
(* TableProperties *)

get(configuration, key) ==
    IF key \in DOMAIN configuration THEN Some(configuration[key]) ELSE None

\* a boolean property: "true" / "false"; anything else is left unset
parse_bool(o) ==
    IF o = Some("true") THEN Some(TRUE)
    ELSE IF o = Some("false") THEN Some(FALSE)
    ELSE None

\* the column mapping mode property: "none" / "id" / "name"
parse_mode(o) ==
    IF o \in {Some(ModeNone), Some(ModeId), Some(ModeName)} THEN o ELSE None

\* the decimal numbers that occur as property values
Decimal == ("0" :> 0) @@ ("5" :> 5) @@ ("100" :> 100)

\* an integer property: a decimal number; anything else is left unset
parse_int(o) ==
    IF o # None /\ unwrap(o) \in DOMAIN Decimal
    THEN Some(Decimal[unwrap(o)])
    ELSE None

\* Metadata::parse_table_properties (never fails)
parse_table_properties(metadata) ==
    [enable_change_data_feed |->
        parse_bool(get(metadata.configuration, EnableChangeDataFeed)),
     enable_deletion_vectors |->
        parse_bool(get(metadata.configuration, EnableDeletionVectors)),
     column_mapping_mode |->
        parse_mode(get(metadata.configuration, ColumnMappingModeKey)),
     append_only |->
        parse_bool(get(metadata.configuration, AppendOnlyKey)),
     enable_in_commit_timestamps |->
        parse_bool(get(metadata.configuration, EnableInCommitTimestamps)),
     in_commit_timestamp_enablement_version |->
        parse_int(get(metadata.configuration,
                      InCommitTimestampEnablementVersion)),
     in_commit_timestamp_enablement_timestamp |->
        parse_int(get(metadata.configuration,
                      InCommitTimestampEnablementTimestamp))]

\* table_features::column_mapping_mode: the property counts at reader
\* version 2, and at reader version 3 with the columnMapping reader feature
column_mapping_mode(protocol, table_properties) ==
    IF /\ is_some(table_properties.column_mapping_mode)
       /\ \/ protocol.min_reader_version = 2
          \/ /\ protocol.min_reader_version = 3
             /\ has_reader_feature(protocol, ColumnMapping)
    THEN unwrap(table_properties.column_mapping_mode)
    ELSE ModeNone

----------------------------------------------------------------------------
(* Structural validators *)

\* validate_schema_column_mapping: with mode none no field is annotated,
\* otherwise every field is
validate_schema_column_mapping(schema, mode) ==
    IF \E i \in 1..Len(schema) : mode = ModeNone /\ schema[i].annotated
    THEN Err("Generic", "Column mapping is not enabled but field is annotated")
    ELSE IF \E i \in 1..Len(schema) : mode # ModeNone /\ ~schema[i].annotated
    THEN Err("Generic", "Column mapping is enabled but field is not annotated")
    ELSE Ok(TRUE)

validate_timestamp_ntz_feature_support(schema, protocol) ==
    IF /\ \E i \in 1..Len(schema) : schema[i].type = "timestamp_ntz"
       /\ ~(/\ has_reader_feature(protocol, TimestampWithoutTimezone)
            /\ has_writer_feature(protocol, TimestampWithoutTimezone))
    THEN Err("Unsupported",
             "Table contains TIMESTAMP_NTZ columns but does not have the required 'timestampNtz' feature in reader and writer features")
    ELSE Ok(TRUE)

validate_variant_type_feature_support(schema, protocol) ==
    IF /\ \E i \in 1..Len(schema) : schema[i].type = "variant"
       /\ ~(/\ has_reader_feature(protocol, VariantType)
            /\ has_writer_feature(protocol, VariantType))
    THEN Err("Unsupported",
             "Table contains VARIANT columns but does not have the required 'variantType' feature in reader and writer features")
    ELSE Ok(TRUE)

----------------------------------------------------------------------------
(* TableConfiguration *)

NoConfig == [none |-> TRUE]

\* try_new variant: the timestamp_ntz validation is left out
try_new_without_timestamp_ntz(metadata, protocol, table_root, version) ==
    LET parsed == parse_schema(metadata)
        table_properties == parse_table_properties(metadata)
        mode == column_mapping_mode(protocol, table_properties)
        s1 == <<"parse_schema">>
        s2 == s1 \o <<"parse_table_properties", "column_mapping_mode",
                      "validate_schema_column_mapping">>
        s4 == Append(s2, "validate_variant_type_feature_support")
    IN  IF ~parsed.ok THEN [result |-> parsed, steps |-> s1]
        ELSE LET schema == parsed.value
                 mapping == validate_schema_column_mapping(schema, mode)
                 variant == validate_variant_type_feature_support(schema, protocol)
             IN  IF ~mapping.ok THEN [result |-> mapping, steps |-> s2]
                 ELSE IF ~variant.ok THEN [result |-> variant, steps |-> s4]
                 ELSE [result |-> Ok([schema |-> schema,
                                      metadata |-> metadata,
                                      protocol |-> protocol,
                                      table_properties |-> table_properties,
                                      column_mapping_mode |-> mode,
                                      table_root |-> table_root,
                                      version |-> version]),
                       steps |-> s4]

try_new_variant_first(metadata, protocol, table_root, version) ==
    LET parsed == parse_schema(metadata)
        table_properties == parse_table_properties(metadata)
        mode == column_mapping_mode(protocol, table_properties)
        s1 == <<"parse_schema">>
        s2 == s1 \o <<"parse_table_properties", "column_mapping_mode",
                      "validate_schema_column_mapping">>
        s3 == Append(s2, "validate_variant_type_feature_support")
        s4 == Append(s3, "validate_timestamp_ntz_feature_support")
    IN  IF ~parsed.ok THEN [result |-> parsed, steps |-> s1]
        ELSE LET schema == parsed.value
                 mapping == validate_schema_column_mapping(schema, mode)
                 ntz == validate_timestamp_ntz_feature_support(schema, protocol)
                 variant == validate_variant_type_feature_support(schema, protocol)
             IN  IF ~mapping.ok THEN [result |-> mapping, steps |-> s2]
                 ELSE IF ~variant.ok THEN [result |-> variant, steps |-> s3]
                 ELSE IF ~ntz.ok THEN [result |-> ntz, steps |-> s4]
                 ELSE [result |-> Ok([schema |-> schema,
                                      metadata |-> metadata,
                                      protocol |-> protocol,
                                      table_properties |-> table_properties,
                                      column_mapping_mode |-> mode,
                                      table_root |-> table_root,
                                      version |-> version]),
                       steps |-> s4]

try_new_without_variant(metadata, protocol, table_root, version) ==
    LET parsed == parse_schema(metadata)
        table_properties == parse_table_properties(metadata)
        mode == column_mapping_mode(protocol, table_properties)
        s1 == <<"parse_schema">>
        s2 == s1 \o <<"parse_table_properties", "column_mapping_mode",
                      "validate_schema_column_mapping">>
        s3 == Append(s2, "validate_timestamp_ntz_feature_support")
    IN  IF ~parsed.ok THEN [result |-> parsed, steps |-> s1]
        ELSE LET schema == parsed.value
                 mapping == validate_schema_column_mapping(schema, mode)
                 ntz == validate_timestamp_ntz_feature_support(schema, protocol)
             IN  IF ~mapping.ok THEN [result |-> mapping, steps |-> s2]
                 ELSE IF ~ntz.ok THEN [result |-> ntz, steps |-> s3]
                 ELSE [result |-> Ok([schema |-> schema,
                                      metadata |-> metadata,
                                      protocol |-> protocol,
                                      table_properties |-> table_properties,
                                      column_mapping_mode |-> mode,
                                      table_root |-> table_root,
                                      version |-> version]),
                       steps |-> s3]

\* TableConfiguration::try_new.  The result comes with the pipeline steps
\* that ran, in order.
try_new(metadata, protocol, table_root, version) ==
    LET parsed == parse_schema(metadata)
        table_properties == parse_table_properties(metadata)
        mode == column_mapping_mode(protocol, table_properties)
        s1 == <<"parse_schema">>
        s2 == s1 \o <<"parse_table_properties", "column_mapping_mode",
                      "validate_schema_column_mapping">>
        s3 == Append(s2, "validate_timestamp_ntz_feature_support")
        s4 == Append(s3, "validate_variant_type_feature_support")
    IN  IF ~parsed.ok THEN [result |-> parsed, steps |-> s1]
        ELSE LET schema == parsed.value
                 mapping == validate_schema_column_mapping(schema, mode)
                 ntz == validate_timestamp_ntz_feature_support(schema, protocol)
                 variant == validate_variant_type_feature_support(schema, protocol)
             IN  IF ~mapping.ok THEN [result |-> mapping, steps |-> s2]
                 ELSE IF ~ntz.ok THEN [result |-> ntz, steps |-> s3]
                 ELSE IF ~variant.ok THEN [result |-> variant, steps |-> s4]
                 ELSE [result |-> Ok([schema |-> schema,
                                      metadata |-> metadata,
                                      protocol |-> protocol,
                                      table_properties |-> table_properties,
                                      column_mapping_mode |-> mode,
                                      table_root |-> table_root,
                                      version |-> version]),
                       steps |-> s4]

\* try_new_from variant: a protocol-only update swaps the protocol in place
\* of running the construction pipeline
try_new_from_unvalidated_protocol(table_configuration, new_metadata, new_protocol, new_version) ==
    IF new_metadata = None
    THEN [table_configuration |-> table_configuration,
          result |-> Ok([table_configuration EXCEPT
                            !.version = new_version,
                            !.protocol = unwrap_or(new_protocol, @)]),
          steps |-> <<>>]
    ELSE LET out == try_new(unwrap(new_metadata),
                            unwrap_or(new_protocol, table_configuration.protocol),
                            table_configuration.table_root,
                            new_version)
         IN  [table_configuration |-> table_configuration,
              result |-> out.result,
              steps |-> out.steps]

\* try_new_from variant: no fast path, the pipeline always runs
try_new_from_revalidating(table_configuration, new_metadata, new_protocol, new_version) ==
    LET out == try_new(unwrap_or(new_metadata, table_configuration.metadata),
                       unwrap_or(new_protocol, table_configuration.protocol),
                       table_configuration.table_root,
                       new_version)
    IN  [table_configuration |-> table_configuration,
         result |-> out.result,
         steps |-> out.steps]

\* try_new_from variant: the replacement protocol is dropped when a
\* replacement metadata is given
try_new_from_stale_protocol(table_configuration, new_metadata, new_protocol, new_version) ==
    IF new_metadata = None /\ new_protocol = None
    THEN [table_configuration |-> table_configuration,
          result |-> Ok([table_configuration EXCEPT !.version = new_version]),
          steps |-> <<>>]
    ELSE LET out == try_new(unwrap_or(new_metadata, table_configuration.metadata),
                            IF new_metadata = None
                            THEN unwrap(new_protocol)
                            ELSE table_configuration.protocol,
                            table_configuration.table_root,
                            new_version)
         IN  [table_configuration |-> table_configuration,
              result |-> out.result,
              steps |-> out.steps]

\* try_new_from variant: the version is also written to the configuration
\* passed in
try_new_from_in_place(table_configuration, new_metadata, new_protocol, new_version) ==
    LET updated == [table_configuration EXCEPT !.version = new_version]
    IN  IF new_metadata = None /\ new_protocol = None
        THEN [table_configuration |-> updated,
              result |-> Ok(updated),
              steps |-> <<>>]
        ELSE LET out == try_new(unwrap_or(new_metadata, table_configuration.metadata),
                                unwrap_or(new_protocol, table_configuration.protocol),
                                table_configuration.table_root,
                                new_version)
             IN  [table_configuration |-> updated,
                  result |-> out.result,
                  steps |-> out.steps]

try_new_from_stale_version(table_configuration, new_metadata, new_protocol, new_version) ==
    IF new_metadata = None /\ new_protocol = None
    THEN [table_configuration |-> table_configuration,
          result |-> Ok(table_configuration),
          steps |-> <<>>]
    ELSE LET out == try_new(unwrap_or(new_metadata, table_configuration.metadata),
                            unwrap_or(new_protocol, table_configuration.protocol),
                            table_configuration.table_root,
                            new_version)
         IN  [table_configuration |-> table_configuration,
              result |-> out.result,
              steps |-> out.steps]

\* TableConfiguration::try_new_from.  table_configuration is borrowed; the
\* record returned carries it as it is after the call.
try_new_from(table_configuration, new_metadata, new_protocol, new_version) ==
    IF new_metadata = None /\ new_protocol = None
    THEN [table_configuration |-> table_configuration,
          result |-> Ok([table_configuration EXCEPT !.version = new_version]),
          steps |-> <<>>]
    ELSE LET out == try_new(unwrap_or(new_metadata, table_configuration.metadata),
                            unwrap_or(new_protocol, table_configuration.protocol),
                            table_configuration.table_root,
                            new_version)
         IN  [table_configuration |-> table_configuration,
              result |-> out.result,
              steps |-> out.steps]

\* is_cdf_read_supported variant: column mapping is judged by the resolved
\* column_mapping_mode field
is_cdf_read_supported_resolved_mode(self) ==
    LET protocol_supported ==
            IF is_some(reader_features(self.protocol))
               /\ min_reader_version(self.protocol) = 3
            THEN ensure_supported_features(unwrap(reader_features(self.protocol)),
                                           {DeletionVectors}).ok
            ELSE IF reader_features(self.protocol) = None
            THEN min_reader_version(self.protocol) = 1
            ELSE FALSE
        cdf_enabled == unwrap_or(self.table_properties.enable_change_data_feed, FALSE)
    IN  protocol_supported /\ cdf_enabled /\ self.column_mapping_mode = ModeNone

is_cdf_read_supported(self) ==
    LET CDF_SUPPORTED_READER_FEATURES == {DeletionVectors}
        protocol_supported ==
            IF is_some(reader_features(self.protocol))
               /\ min_reader_version(self.protocol) = 3
            THEN ensure_supported_features(unwrap(reader_features(self.protocol)),
                                           CDF_SUPPORTED_READER_FEATURES).ok
            ELSE IF reader_features(self.protocol) = None
            THEN min_reader_version(self.protocol) = 1
            ELSE FALSE
        cdf_enabled == unwrap_or(self.table_properties.enable_change_data_feed, FALSE)
        column_mapping_disabled ==
            self.table_properties.column_mapping_mode \in {None, Some(ModeNone)}
    IN  protocol_supported /\ cdf_enabled /\ column_mapping_disabled

\* is_deletion_vector_supported variant: the writer version is not looked at
is_deletion_vector_supported_any_writer_version(self) ==
    /\ has_reader_feature(self.protocol, DeletionVectors)
    /\ min_reader_version(self.protocol) = 3
    /\ has_writer_feature(self.protocol, DeletionVectors)

is_deletion_vector_supported(self) ==
    LET read_supported ==
            /\ has_reader_feature(self.protocol, DeletionVectors)
            /\ min_reader_version(self.protocol) = 3
        write_supported ==
            /\ has_writer_feature(self.protocol, DeletionVectors)
            /\ min_writer_version(self.protocol) = 7
    IN  read_supported /\ write_supported

\* is_deletion_vector_enabled variant: an unset property counts as true
is_deletion_vector_enabled_default_true(self) ==
    /\ is_deletion_vector_supported(self)
    /\ unwrap_or(self.table_properties.enable_deletion_vectors, TRUE)

is_deletion_vector_enabled(self) ==
    /\ is_deletion_vector_supported(self)
    /\ unwrap_or(self.table_properties.enable_deletion_vectors, FALSE)

\* is_append_only_supported variant: writer versions 2 to 7 all count
is_append_only_supported_through_7(self) ==
    min_writer_version(self.protocol) \in 2..7

is_append_only_supported(self) ==
    IF /\ min_writer_version(self.protocol) = 7
       /\ has_writer_feature(self.protocol, AppendOnly)
    THEN TRUE
    ELSE min_writer_version(self.protocol) \in 2..6

is_append_only_enabled(self) ==
    /\ is_append_only_supported(self)
    /\ unwrap_or(self.table_properties.append_only, FALSE)

\* is_invariants_supported variant: the writer version 7 arm is missing
is_invariants_supported_legacy_only(self) ==
    min_writer_version(self.protocol) \in 2..6

is_invariants_supported(self) ==
    IF /\ min_writer_version(self.protocol) = 7
       /\ has_writer_feature(self.protocol, Invariants)
    THEN TRUE
    ELSE min_writer_version(self.protocol) \in 2..6

is_v2_checkpoint_write_supported(self) ==
    LET read_supported == has_reader_feature(self.protocol, V2Checkpoint)
        write_supported == has_writer_feature(self.protocol, V2Checkpoint)
    IN  read_supported /\ write_supported

\* is_in_commit_timestamps_supported variant: the writer version is not
\* looked at
is_in_commit_timestamps_supported_any_version(self) ==
    has_writer_feature(self.protocol, InCommitTimestamp)

is_in_commit_timestamps_supported(self) ==
    /\ min_writer_version(self.protocol) = 7
    /\ has_writer_feature(self.protocol, InCommitTimestamp)

is_in_commit_timestamps_enabled(self) ==
    /\ is_in_commit_timestamps_supported(self)
    /\ unwrap_or(self.table_properties.enable_in_commit_timestamps, FALSE)

\* the closure ict_error: the fixed text followed by err
ict_error(err) ==
    Err("Generic",
        <<"In-commit timestamp enabled, but missing Enablement version or timestamp. ",
          err>>)

\* in_commit_timestamp_enablement variant: the enablement properties are
\* read without asking whether in-commit timestamps are enabled
in_commit_timestamp_enablement_unguarded(self) ==
    LET enablement_version ==
            self.table_properties.in_commit_timestamp_enablement_version
        enablement_timestamp ==
            self.table_properties.in_commit_timestamp_enablement_timestamp
    IN  IF is_some(enablement_version) /\ is_some(enablement_timestamp)
        THEN Ok(Some(<<unwrap(enablement_version), unwrap(enablement_timestamp)>>))
        ELSE IF ~is_in_commit_timestamps_enabled(self) THEN Ok(None)
        ELSE IF is_some(enablement_version)
        THEN ict_error("Enablement timestamp is not present")
        ELSE IF is_some(enablement_timestamp)
        THEN ict_error("Enablement version is not present")
        ELSE ict_error("Enablement version and timestamp are not present.")

\* in_commit_timestamp_enablement variant: the pair is (timestamp, version)
in_commit_timestamp_enablement_swapped(self) ==
    LET enablement_version ==
            self.table_properties.in_commit_timestamp_enablement_version
        enablement_timestamp ==
            self.table_properties.in_commit_timestamp_enablement_timestamp
    IN  IF ~is_in_commit_timestamps_enabled(self) THEN Ok(None)
        ELSE IF is_some(enablement_version) /\ is_some(enablement_timestamp)
        THEN Ok(Some(<<unwrap(enablement_timestamp), unwrap(enablement_version)>>))
        ELSE IF is_some(enablement_version)
        THEN ict_error("Enablement timestamp is not present")
        ELSE IF is_some(enablement_timestamp)
        THEN ict_error("Enablement version is not present")
        ELSE ict_error("Enablement version and timestamp are not present.")

\* in_commit_timestamp_enablement variant: the messages of the two
\* one-sided cases are exchanged
in_commit_timestamp_enablement_crossed(self) ==
    LET enablement_version ==
            self.table_properties.in_commit_timestamp_enablement_version
        enablement_timestamp ==
            self.table_properties.in_commit_timestamp_enablement_timestamp
    IN  IF ~is_in_commit_timestamps_enabled(self) THEN Ok(None)
        ELSE IF is_some(enablement_version) /\ is_some(enablement_timestamp)
        THEN Ok(Some(<<unwrap(enablement_version), unwrap(enablement_timestamp)>>))
        ELSE IF is_some(enablement_version)
        THEN ict_error("Enablement version is not present")
        ELSE IF is_some(enablement_timestamp)
        THEN ict_error("Enablement timestamp is not present")
        ELSE ict_error("Enablement version and timestamp are not present.")

in_commit_timestamp_enablement(self) ==
    LET enablement_version ==
            self.table_properties.in_commit_timestamp_enablement_version
        enablement_timestamp ==
            self.table_properties.in_commit_timestamp_enablement_timestamp
    IN  IF ~is_in_commit_timestamps_enabled(self) THEN Ok(None)
        ELSE IF is_some(enablement_version) /\ is_some(enablement_timestamp)
        THEN Ok(Some(<<unwrap(enablement_version), unwrap(enablement_timestamp)>>))
        ELSE IF is_some(enablement_version)
        THEN ict_error("Enablement timestamp is not present")
        ELSE IF is_some(enablement_timestamp)
        THEN ict_error("Enablement version is not present")
        ELSE ict_error("Enablement version and timestamp are not present.")

\* ensure_write_supported variant: the invariants are looked at before the
\* protocol's writer features
ensure_write_supported_invariants_first(self) ==
    IF is_invariants_supported(self) /\ has_invariants(self.schema)
    THEN Err("Unsupported", "Column invariants are not yet supported")
    ELSE protocol_ensure_write_supported(self.protocol)

\* ensure_write_supported variant: invariants in the schema are rejected
\* only at writer version 7
ensure_write_supported_feature_only(self) ==
    LET supported == protocol_ensure_write_supported(self.protocol)
    IN  IF ~supported.ok THEN supported
        ELSE IF /\ min_writer_version(self.protocol) = 7
                /\ is_invariants_supported(self)
                /\ has_invariants(self.schema)
        THEN Err("Unsupported", "Column invariants are not yet supported")
        ELSE Ok(TRUE)

\* TableConfiguration::ensure_write_supported
ensure_write_supported(self) ==
    LET supported == protocol_ensure_write_supported(self.protocol)
    IN  IF ~supported.ok THEN supported
        ELSE IF is_invariants_supported(self) /\ has_invariants(self.schema)
        THEN Err("Unsupported", "Column invariants are not yet supported")
        ELSE Ok(TRUE)

----------------------------------------------------------------------------
(* Inputs.  Spec exercises construction and update on Protocols x Metadatas; *)
(* QuerySpec exercises the predicates on the wider QProtocols x QMetadatas. *)

Protocols ==
    {Protocol(3, 7, Some({DeletionVectors}), Some({DeletionVectors})),
     Protocol(3, 7, Some({TimestampWithoutTimezone, VariantType}),
                    Some({TimestampWithoutTimezone, VariantType})),
     Protocol(3, 7, Some({}), Some({})),
     Protocol(3, 7, Some({UnknownFeature}), Some({UnknownFeature})),
     Protocol(1, 2, None, None),
     Protocol(2, 5, None, None)}

Metadatas ==
    {Metadata(SchemaInt, EmptyMap),
     Metadata(SchemaInt, (EnableChangeDataFeed :> "true")),
     Metadata(SchemaInt, (ColumnMappingModeKey :> ModeName)),
     Metadata(SchemaMapped, (ColumnMappingModeKey :> ModeName)),
     Metadata(SchemaNtz, EmptyMap),
     Metadata(SchemaVariant, EmptyMap),
     Metadata(SchemaMalformed, EmptyMap)}

QFeatureLists ==
    {None, Some({}), Some({DeletionVectors}), Some({TimestampWithoutTimezone}),
     Some({DeletionVectors, TimestampWithoutTimezone}),
     Some({DeletionVectors, ColumnMapping})}

QProtocols ==
    {Protocol(rv, wv, rf, wf) : rv \in {1, 2, 3}, wv \in {2, 7},
                                rf \in QFeatureLists, wf \in QFeatureLists}

\* the configuration maps over the given keys and values, keys may be absent
Maps(keys, values) ==
    UNION {[d -> values] : d \in SUBSET keys}

QConfigurations ==
    {b @@ m : b \in Maps({EnableChangeDataFeed, EnableDeletionVectors},
                         {"true", "false"}),
              m \in Maps({ColumnMappingModeKey}, {ModeNone, ModeName, ModeId})}

QMetadatas ==
    {Metadata(s, c) : s \in {SchemaInt, SchemaMapped}, c \in QConfigurations}

\* WriterSpec: the writer side predicates, in three families of inputs
WFeatureLists ==
    {None, Some({}), Some({AppendOnly}), Some({Invariants}),
     Some({V2Checkpoint}), Some({InCommitTimestamp}),
     Some({AppendOnly, Invariants}), Some({UnknownFeature}),
     Some({Invariants, UnknownFeature})}

WProtocols ==
    {Protocol(rv, wv, rf, wf) : rv \in {1, 3}, wv \in {1, 2, 6, 7, 8},
                                rf \in {None, Some({V2Checkpoint})},
                                wf \in WFeatureLists}

IctProtocols ==
    {Protocol(3, wv, Some({}), wf) :
        wv \in {2, 7}, wf \in {None, Some({}), Some({InCommitTimestamp})}}

IctConfigurations ==
    {e @@ v @@ t :
        e \in Maps({EnableInCommitTimestamps}, {"true", "false"}),
        v \in Maps({InCommitTimestampEnablementVersion}, {"5"}),
        t \in Maps({InCommitTimestampEnablementTimestamp}, {"100"})}

WInputs ==
    {<<Metadata(SchemaInt, c), p>> :
        c \in Maps({AppendOnlyKey, EnableInCommitTimestamps}, {"true", "false"}),
        p \in WProtocols}
    \cup {<<Metadata(SchemaInt, c), p>> :
        c \in IctConfigurations, p \in IctProtocols}
    \cup {<<Metadata(s, EmptyMap), p>> :
        s \in {SchemaInt, SchemaInvariants}, p \in WProtocols}

\* ConstructSpec: construction on schemas with timestamp_ntz and variant
\* fields, with and without column mapping annotations
CFeatureLists ==
    {Some({}), Some({TimestampWithoutTimezone}), Some({VariantType}),
     Some({TimestampWithoutTimezone, VariantType})}

CProtocols ==
    {Protocol(3, 7, rf, wf) : rf \in CFeatureLists, wf \in CFeatureLists}
    \cup {Protocol(1, 2, None, None), Protocol(2, 5, None, None)}

CMetadatas ==
    {Metadata(s, c) :
        s \in {SchemaInt, SchemaNtz, SchemaVariant, SchemaMapped,
               SchemaNtzMapped, SchemaNtzVariant, SchemaMalformed},
        c \in Maps({ColumnMappingModeKey}, {ModeName})}

----------------------------------------------------------------------------
(* State.                                                                  *)
(*   tc      the TableConfiguration the last call was made on, as it is    *)
(*           after the call (NoConfig for try_new, which takes none)       *)
(*   call    the last call: operation and arguments                        *)
(*   result  what the last call returned                                   *)
(*   steps   the construction steps the last call ran                      *)
(*   latest  where the calls are followed (ChainSpec), the arguments the   *)
(*           newest configuration goes back to: the metadata and the       *)
(*           protocol most recently supplied on the way to it, the table   *)
(*           root of its try_new call, and the version last supplied       *)
(*   http    the FilesApiHttpClient, the response the server gives, the    *)
(*           last ObjectStore call on the client and what it returned      *)
(*   ffi     the commits of the table the FFI works on, the snapshot in    *)
(*           hand, the last get_domain_metadata call and what it returned  *)
(* A behaviour starts with the table's try_new call; the table then        *)
(* advances by try_new_from on the newest configuration it has.            *)

Call(op, src, metadata, protocol, table_root, version) ==
    [op |-> op, src |-> src, metadata |-> metadata, protocol |-> protocol,
     table_root |-> table_root, version |-> version]

Constructors == {"try_new", "try_new_from"}

Sources == {"tc", "result"}

\* the configurations in hand: the one last used and the one last returned
HasConfig(src) ==
    IF src = "tc" THEN tc # NoConfig
    ELSE call.op \in Constructors /\ result.ok

Held(src) == IF src = "tc" THEN tc ELSE result.value

\* the newest configuration: the one just returned, or else the one last used
Newest == IF HasConfig("result") THEN "result" ELSE "tc"

\* no FilesApiHttpClient is in use
NoHttp == [none |-> TRUE]

\* no snapshot is in use through the FFI
NoFfi == [none |-> TRUE]

\* the arguments a configuration goes back to
Supplied(metadata, protocol, table_root, version) ==
    [metadata |-> metadata, protocol |-> protocol, table_root |-> table_root,
     version |-> version]

NoneSupplied == [none |-> TRUE]

\* try_new(metadata, protocol, table_root, version) has returned
TryNewReturned(metadata, protocol, table_root, version) ==
    LET out == try_new(metadata, protocol, table_root, version)
    IN  /\ tc = NoConfig
        /\ call = Call("try_new", "", Some(metadata), Some(protocol),
                       table_root, version)
        /\ result = out.result
        /\ steps = out.steps
        /\ http = NoHttp
        /\ ffi = NoFfi

\* the state after try_new(metadata, protocol, table_root, version)
AfterTryNew(metadata, protocol, table_root, version) ==
    /\ TryNewReturned(metadata, protocol, table_root, version)
    /\ latest = NoneSupplied

Init ==
    \E metadata \in Metadatas, protocol \in Protocols,
       table_root \in Roots, version \in Versions :
        AfterTryNew(metadata, protocol, table_root, version)

QueryInit ==
    \E metadata \in QMetadatas, protocol \in QProtocols :
        AfterTryNew(metadata, protocol, "file:///a/", 0)

\* try_new_from(newest configuration, new_metadata, new_protocol,
\* new_version) is called and returns
TryNewFromReturns(new_metadata, new_protocol, new_version) ==
    /\ HasConfig(Newest)
    /\ LET out == try_new_from(Held(Newest), new_metadata, new_protocol,
                               new_version)
       IN  /\ tc' = out.table_configuration
           /\ call' = Call("try_new_from", "", new_metadata,
                           new_protocol, "", new_version)
           /\ result' = out.result
           /\ steps' = out.steps
           /\ UNCHANGED <<http, ffi>>

TryNewFrom ==
    \E new_metadata \in {None} \cup {Some(m) : m \in Metadatas},
       new_protocol \in {None} \cup {Some(p) : p \in Protocols},
       new_version \in Versions :
        /\ TryNewFromReturns(new_metadata, new_protocol, new_version)
        /\ UNCHANGED latest

\* a predicate call on a configuration in hand
Query(op, src, answer) ==
    /\ tc' = Held(src)
    /\ call' = Call(op, src, None, None, "", 0)
    /\ result' = Ok(answer)
    /\ steps' = <<>>
    /\ UNCHANGED <<latest, http, ffi>>

IsCdfReadSupported ==
    \E src \in Sources :
        /\ HasConfig(src)
        /\ Query("is_cdf_read_supported", src, is_cdf_read_supported(Held(src)))

IsDeletionVectorSupported ==
    \E src \in Sources :
        /\ HasConfig(src)
        /\ Query("is_deletion_vector_supported", src,
                 is_deletion_vector_supported(Held(src)))

IsDeletionVectorEnabled ==
    \E src \in Sources :
        /\ HasConfig(src)
        /\ Query("is_deletion_vector_enabled", src,
                 is_deletion_vector_enabled(Held(src)))

Next ==
    \/ TryNewFrom
    \/ IsCdfReadSupported
    \/ IsDeletionVectorSupported
    \/ IsDeletionVectorEnabled

Spec == Init /\ [][Next]_vars

\* ChainSpec: the table's try_new call and the try_new_from calls that
\* follow it, each on the newest configuration, with the arguments
\* supplied so far kept
ChainInit ==
    \E metadata \in Metadatas, protocol \in Protocols,
       table_root \in Roots, version \in Versions :
        /\ TryNewReturned(metadata, protocol, table_root, version)
        /\ latest = Supplied(metadata, protocol, table_root, version)

\* a try_new_from call; one that succeeds supplies a version and maybe a
\* metadata and a protocol
Update ==
    \E new_metadata \in {None} \cup {Some(m) : m \in Metadatas},
       new_protocol \in {None} \cup {Some(p) : p \in Protocols},
       new_version \in Versions :
        /\ TryNewFromReturns(new_metadata, new_protocol, new_version)
        /\ latest' = IF result'.ok
                     THEN Supplied(unwrap_or(new_metadata, latest.metadata),
                                   unwrap_or(new_protocol, latest.protocol),
                                   latest.table_root,
                                   new_version)
                     ELSE latest

ChainSpec == ChainInit /\ [][Update]_vars

QueryNext ==
    \/ IsCdfReadSupported
    \/ IsDeletionVectorSupported
    \/ IsDeletionVectorEnabled

QuerySpec == QueryInit /\ [][QueryNext]_vars

ConstructInit ==
    \E metadata \in CMetadatas, protocol \in CProtocols,
       table_root \in Roots, version \in Versions :
        AfterTryNew(metadata, protocol, table_root, version)

ConstructSpec == ConstructInit /\ [][QueryNext]_vars

WriterInit ==
    \E input \in WInputs : AfterTryNew(input[1], input[2], "file:///a/", 0)

\* a call on a configuration in hand that returns a Result
Check(op, src, returned) ==
    /\ tc' = Held(src)
    /\ call' = Call(op, src, None, None, "", 0)
    /\ result' = returned
    /\ steps' = <<>>
    /\ UNCHANGED <<latest, http, ffi>>

IsAppendOnlySupported ==
    \E src \in Sources :
        /\ HasConfig(src)
        /\ Query("is_append_only_supported", src,
                 is_append_only_supported(Held(src)))

IsAppendOnlyEnabled ==
    \E src \in Sources :
        /\ HasConfig(src)
        /\ Query("is_append_only_enabled", src,
                 is_append_only_enabled(Held(src)))

IsInvariantsSupported ==
    \E src \in Sources :
        /\ HasConfig(src)
        /\ Query("is_invariants_supported", src,
                 is_invariants_supported(Held(src)))

IsV2CheckpointWriteSupported ==
    \E src \in Sources :
        /\ HasConfig(src)
        /\ Query("is_v2_checkpoint_write_supported", src,
                 is_v2_checkpoint_write_supported(Held(src)))

IsInCommitTimestampsSupported ==
    \E src \in Sources :
        /\ HasConfig(src)
        /\ Query("is_in_commit_timestamps_supported", src,
                 is_in_commit_timestamps_supported(Held(src)))

IsInCommitTimestampsEnabled ==
    \E src \in Sources :
        /\ HasConfig(src)
        /\ Query("is_in_commit_timestamps_enabled", src,
                 is_in_commit_timestamps_enabled(Held(src)))

InCommitTimestampEnablement ==
    \E src \in Sources :
        /\ HasConfig(src)
        /\ Check("in_commit_timestamp_enablement", src,
                 in_commit_timestamp_enablement(Held(src)))

EnsureWriteSupported ==
    \E src \in Sources :
        /\ HasConfig(src)
        /\ Check("ensure_write_supported", src,
                 ensure_write_supported(Held(src)))

WriterNext ==
    \/ IsAppendOnlySupported
    \/ IsAppendOnlyEnabled
    \/ IsInvariantsSupported
    \/ IsV2CheckpointWriteSupported
    \/ IsInCommitTimestampsSupported
    \/ IsInCommitTimestampsEnabled
    \/ InCommitTimestampEnablement
    \/ EnsureWriteSupported

WriterSpec == WriterInit /\ [][WriterNext]_vars

----------------------------------------------------------------------------
(* FilesApiHttpClient.                                                     *)
(* A text is the sequence of its pieces: every digit and every '/' is a   *)
(* piece of its own, and every other piece is a stretch of characters     *)
(* with neither.  A response body is written character by character.      *)

Digit == <<"0", "1", "2", "3", "4", "5", "6", "7", "8", "9">>

\* the three decimal digits of a status code
Digits(n) ==
    <<Digit[(n \div 100) + 1], Digit[((n \div 10) % 10) + 1],
      Digit[(n % 10) + 1]>>

\* str::contains
contains(text, pattern) ==
    \E i \in 1..(Len(text) - Len(pattern) + 1) :
        SubSeq(text, i, i + Len(pattern) - 1) = pattern

\* the pieces with upper case letters, and what to_lowercase makes of them
LowerCase ==
    ("Rate limited (" :> "rate limited (")
    @@ ("). Consider implementing retry logic." :>
            "). consider implementing retry logic.")
    @@ ("Authentication failed (" :> "authentication failed (")
    @@ ("). Check your token." :> "). check your token.")
    @@ ("Access forbidden (" :> "access forbidden (")
    @@ ("). Check permissions." :> "). check permissions.")
    @@ ("Resource not found (" :> "resource not found (")
    @@ ("Internal Server Error (" :> "internal server error (")
    @@ ("HTTP error " :> "http error ")
    @@ (" Bad Gateway" :> " bad gateway")
    @@ (" Bad Request" :> " bad request")
    @@ (" for URL: " :> " for url: ")

\* str::to_lowercase
to_lowercase(text) ==
    [i \in 1..Len(text) |->
        IF text[i] \in DOMAIN LowerCase THEN LowerCase[text[i]] ELSE text[i]]

RECURSIVE trim_start_matches(_, _)
\* str::trim_start_matches
trim_start_matches(text, piece) ==
    IF text # <<>> /\ Head(text) = piece
    THEN trim_start_matches(Tail(text), piece)
    ELSE text

RECURSIVE trim_end_matches(_, _)
\* str::trim_end_matches
trim_end_matches(text, piece) ==
    IF text # <<>> /\ text[Len(text)] = piece
    THEN trim_end_matches(SubSeq(text, 1, Len(text) - 1), piece)
    ELSE text

\* StatusCode
OK == 200
CREATED == 201
NO_CONTENT == 204
PARTIAL_CONTENT == 206
BAD_REQUEST == 400
UNAUTHORIZED == 401
FORBIDDEN == 403
NOT_FOUND == 404
TOO_MANY_REQUESTS == 429
INTERNAL_SERVER_ERROR == 500
BAD_GATEWAY == 502

\* StatusCode::canonical_reason, with the space Display puts before it
canonical_reason ==
    (BAD_REQUEST :> " Bad Request") @@ (BAD_GATEWAY :> " Bad Gateway")

\* Display of a StatusCode: the code and its canonical reason
StatusDisplay(status) == Digits(status) \o <<canonical_reason[status]>>

\* FilesApiHttpClient::get_files_url
get_files_url(self, path) ==
    self.workspace_url
    \o <<"/", "api", "/", "2", ".", "0", "/", "fs", "/", "files", "/">>
    \o trim_start_matches(path, "/")

\* FilesApiHttpClient::get_directories_url
get_directories_url(self, path) ==
    self.workspace_url
    \o <<"/", "api", "/", "2", ".", "0", "/", "fs", "/", "directories", "/">>
    \o trim_start_matches(path, "/")

\* the error of get_file and of list_directory on a response whose status
\* is not a success
status_error(response, url) ==
    CASE response.status = TOO_MANY_REQUESTS ->
            Err("anyhow", <<"Rate limited (", "4", "2", "9",
                            "). Consider implementing retry logic.">>)
      [] response.status = UNAUTHORIZED ->
            Err("anyhow", <<"Authentication failed (", "4", "0", "1",
                            "). Check your token.">>)
      [] response.status = FORBIDDEN ->
            Err("anyhow", <<"Access forbidden (", "4", "0", "3",
                            "). Check permissions.">>)
      [] response.status = NOT_FOUND ->
            Err("anyhow", <<"Resource not found (", "4", "0", "4", ").">>)
      [] response.status = INTERNAL_SERVER_ERROR ->
            Err("anyhow", <<"Internal Server Error (", "5", "0", "0", "): ">>
                          \o response.body)
      [] OTHER ->
            Err("anyhow", <<"HTTP error ">> \o StatusDisplay(response.status)
                          \o <<" for URL: ">> \o url)

\* FilesApiHttpClient::get_file, on the response the server gives
get_file(self, path, response) ==
    LET url == get_files_url(self, path)
    IN  IF response.status \in {OK, CREATED, NO_CONTENT, PARTIAL_CONTENT}
        THEN Ok(response.body)
        ELSE status_error(response, url)

\* FilesApiHttpClient::list_directory, on the response the server gives;
\* contents is none when the body is not a directory listing
list_directory(self, path, response) ==
    LET url == get_directories_url(self, path)
    IN  IF response.status \in {OK, CREATED, NO_CONTENT, PARTIAL_CONTENT}
        THEN IF is_some(response.contents)
             THEN Ok([contents |-> unwrap(response.contents)])
             ELSE Err("anyhow", <<"error decoding response body">>)
        ELSE status_error(response, url)

\* Path::parse: a path with an empty segment is rejected
path_parse(path) ==
    LET trimmed == trim_end_matches(trim_start_matches(path, "/"), "/")
    IN  IF \E i \in 1..(Len(trimmed) - 1) :
              trimmed[i] = "/" /\ trimmed[i + 1] = "/"
        THEN Err("anyhow", <<"Path contains empty segment">>)
        ELSE Ok(trimmed)

FileInfo(path, is_directory, file_size, last_modified) ==
    [path |-> path, is_directory |-> is_directory, file_size |-> file_size,
     last_modified |-> last_modified]

\* FilesApiHttpClient::file_info_to_object_meta; now is the system time
file_info_to_object_meta(file_info, now) ==
    LET path == path_parse(file_info.path)
        last_modified ==
            IF is_some(file_info.last_modified)
            THEN [secs |-> unwrap(file_info.last_modified) \div 1000,
                  nanos |-> (unwrap(file_info.last_modified) % 1000)
                                * 1000000]
            ELSE now
    IN  IF ~path.ok THEN path
        ELSE Ok([location |-> path.value,
                 last_modified |-> last_modified,
                 size |-> unwrap_or(file_info.file_size, 0)])

\* ObjectStore::get_opts
get_opts(self, location, response, now) ==
    LET path_str == trim_end_matches(location, "/")
        content == get_file(self, path_str, response)
    IN  IF ~content.ok
        THEN IF contains(to_lowercase(content.msg), <<"4", "0", "4">>)
             THEN Err("NotFound", content.msg)
             ELSE Err("Generic", content.msg)
        ELSE Ok([payload |-> <<content.value>>,
                 meta |-> [location |-> location,
                           last_modified |-> now,
                           size |-> Len(content.value)],
                 range |-> <<0, Len(content.value)>>])

RECURSIVE list_items(_, _)
\* the items list yields for the entries of a directory listing
list_items(contents, now) ==
    IF contents = <<>> THEN <<>>
    ELSE LET file_info == Head(contents)
             meta == file_info_to_object_meta(file_info, now)
             rest == list_items(Tail(contents), now)
         IN  IF file_info.is_directory THEN rest
             ELSE IF meta.ok THEN <<meta>> \o rest
             ELSE <<Err("Generic", meta.msg)>> \o rest

\* ObjectStore::list: the items of the stream
list(self, prefix, response, now) ==
    LET prefix_str == unwrap_or(prefix, <<>>)
        listing == list_directory(self, prefix_str, response)
    IN  IF listing.ok THEN list_items(listing.value.contents, now)
        ELSE IF ~contains(to_lowercase(listing.msg), <<"4", "0", "4">>)
        THEN <<Err("Generic", listing.msg)>>
        ELSE <<>>

\* HttpSpec: one client, the response the server gives to its requests,
\* and the ObjectStore calls on the client
WorkspaceUrls ==
    {<<"https:", "/", "/", "example.cloud">>,
     <<"https:", "/", "/", "adb-", "1", "4", "0", "4", "7", ".azure.net">>}

Statuses ==
    {OK, CREATED, NO_CONTENT, PARTIAL_CONTENT, BAD_REQUEST, UNAUTHORIZED,
     FORBIDDEN, NOT_FOUND, TOO_MANY_REQUESTS, INTERNAL_SERVER_ERROR,
     BAD_GATEWAY}

Bodies == {<<>>, <<"o", "k">>, <<"4", "0", "4">>}

DataFile ==
    FileInfo(<<"t", "/", "part-", "0", ".parquet">>, FALSE, Some(3),
             Some(1500))

Directory == FileInfo(<<"t", "/", "_delta_log">>, TRUE, None, None)

EmptySegment == FileInfo(<<"t", "/", "/", "x">>, FALSE, None, None)

Listings ==
    {None, Some(<<>>), Some(<<Directory>>), Some(<<DataFile, Directory>>),
     Some(<<EmptySegment, DataFile>>)}

Locations ==
    {<<"t", "/", "part-", "0", ".parquet">>,
     <<"t", "/", "part-", "4", "0", "4", ".parquet">>}

Prefixes == {None, Some(<<"t">>), Some(<<"t", "4", "0", "4">>)}

\* the system time when a call is made
Now == [secs |-> 2, nanos |-> 0]

\* no table configuration is in use
NoTable ==
    /\ tc = NoConfig
    /\ call = Call("", "", None, None, "", 0)
    /\ result = Ok(FALSE)
    /\ steps = <<>>
    /\ latest = NoneSupplied

HttpInit ==
    /\ NoTable
    /\ ffi = NoFfi
    /\ \E workspace_url \in WorkspaceUrls, status \in Statuses,
          body \in Bodies, contents \in Listings :
            http = [self |-> [workspace_url |-> workspace_url],
                    response |-> [status |-> status, body |-> body,
                                  contents |-> contents],
                    call |-> [op |-> "", path |-> None],
                    returned |-> <<>>]

GetOpts ==
    \E location \in Locations :
        /\ http' = [http EXCEPT
                        !.call = [op |-> "get_opts", path |-> Some(location)],
                        !.returned = get_opts(http.self, location,
                                              http.response, Now)]
        /\ UNCHANGED <<tc, call, result, steps, latest, ffi>>

List ==
    \E prefix \in Prefixes :
        /\ http' = [http EXCEPT
                        !.call = [op |-> "list", path |-> prefix],
                        !.returned = list(http.self, prefix, http.response,
                                          Now)]
        /\ UNCHANGED <<tc, call, result, steps, latest, ffi>>

HttpNext ==
    \/ GetOpts
    \/ List

HttpSpec == HttpInit /\ [][HttpNext]_vars

----------------------------------------------------------------------------
(* Domain metadata through the FFI.                                        *)
(* A commit holds at most one domainMetadata action per domain: it is a    *)
(* function from the domains it has an action for to the actions.          *)

MaxCommits == 2

Domains == {"domain1", "domain2", "delta.domain3"}

\* the domains with the system-controlled prefix 'delta.'
SystemDomains == {"delta.domain3"}

\* the configuration string commit `version` gives to a domain, as in
\* "domain1_commit0"
Configuration(d, version) == <<d, "_commit", version>>

DomainMetadata(d, configuration, removed) ==
    [domain |-> d, configuration |-> configuration, removed |-> removed]

\* the commits that can be written as commit `version`
Commits(version) ==
    {[d \in ds |-> DomainMetadata(d, Configuration(d, version), d \in gone)] :
        ds \in SUBSET Domains, gone \in SUBSET {"domain1", "domain2"}}

\* the snapshot of a table at its latest version: it reads the commits
\* the table has when it is taken
snapshot(log) == [version |-> Len(log) - 1, log_segment |-> log]

RECURSIVE replay(_, _, _)
\* log replay, newest commit first: the first action met for the domain
\* is the one that counts
replay(log_segment, version, d) ==
    IF version < 0 THEN None
    ELSE IF d \in DOMAIN log_segment[version + 1]
    THEN Some(log_segment[version + 1][d])
    ELSE replay(log_segment, version - 1, d)

\* Snapshot::get_domain_metadata
snapshot_get_domain_metadata(self, d) ==
    IF d \in SystemDomains
    THEN Err("Generic",
             "User DomainMetadata are not allowed to use system-controlled 'delta.*' domain")
    ELSE LET found == replay(self.log_segment, self.version, d)
         IN  IF is_some(found) /\ ~unwrap(found).removed
             THEN Ok(Some(unwrap(found).configuration))
             ELSE Ok(None)

\* the strings an allocator is given
KernelStrings ==
    {<<>>} \cup {Configuration(d, version) :
                    d \in Domains, version \in 0..MaxCommits}

\* ffi_test_utils::allocate_str: a pointer to a copy of the string, never
\* null
allocate_str == [kernel_str \in KernelStrings |-> Some(kernel_str)]

get_domain_metadata_impl_unwrap_or_default(self, d, allocate_fn) ==
    LET config == snapshot_get_domain_metadata(self, d)
    IN  IF ~config.ok THEN config
        ELSE Ok(allocate_fn[unwrap_or(config.value, <<>>)])

\* get_domain_metadata_impl: Option::and_then hands a configuration to the
\* allocator and passes none through
get_domain_metadata_impl(self, d, allocate_fn) ==
    LET config == snapshot_get_domain_metadata(self, d)
    IN  IF ~config.ok THEN config
        ELSE Ok(IF is_some(config.value)
                THEN allocate_fn[unwrap(config.value)]
                ELSE None)

\* get_domain_metadata
get_domain_metadata(self, d, allocate_fn) ==
    get_domain_metadata_impl(self, d, allocate_fn)

\* FfiSpec: a table with its first commits, a snapshot of it, commits
\* written after the snapshot was taken, and get_domain_metadata calls on
\* the snapshot
FfiInit ==
    /\ NoTable
    /\ http = NoHttp
    /\ \E first \in Commits(0) :
          ffi = [log |-> <<first>>,
                 snapshot |-> None,
                 call |-> [op |-> "", domain |-> ""],
                 returned |-> Ok(None)]

AddCommit ==
    /\ Len(ffi.log) < MaxCommits
    /\ \E commit \in Commits(Len(ffi.log)) :
          ffi' = [ffi EXCEPT !.log = Append(ffi.log, commit),
                             !.call = [op |-> "add_commit", domain |-> ""],
                             !.returned = Ok(None)]
    /\ UNCHANGED <<tc, call, result, steps, latest, http>>

TakeSnapshot ==
    /\ ffi.snapshot = None
    /\ ffi' = [ffi EXCEPT !.snapshot = Some(snapshot(ffi.log)),
                          !.call = [op |-> "snapshot", domain |-> ""],
                          !.returned = Ok(None)]
    /\ UNCHANGED <<tc, call, result, steps, latest, http>>

GetDomainMetadata ==
    /\ is_some(ffi.snapshot)
    /\ \E d \in Domains :
          ffi' = [ffi EXCEPT
                    !.call = [op |-> "get_domain_metadata", domain |-> d],
                    !.returned = get_domain_metadata(unwrap(ffi.snapshot), d,
                                                     allocate_str)]
    /\ UNCHANGED <<tc, call, result, steps, latest, http>>

FfiNext ==
    \/ AddCommit
    \/ TakeSnapshot
    \/ GetDomainMetadata

FfiSpec == FfiInit /\ [][FfiNext]_vars

----------------------------------------------------------------------------
(* Properties *)

\* the configurations in hand
Configs == {Held(src) : src \in {x \in Sources : HasConfig(x)}}

\* the arguments of the last constructor call, with try_new_from's
\* fallbacks applied
CallMetadata == unwrap_or(call.metadata, tc.metadata)

CallProtocol == unwrap_or(call.protocol, tc.protocol)

\* C1: every TableConfiguration produced by try_new or by try_new_from has
\* a protocol on which Protocol::ensure_read_supported succeeds.
C1_ProtocolReadSupported ==
    \A c \in Configs : ensure_read_supported(c.protocol).ok

\* C2: try_new fails when the protocol lists the unrecognized feature
\* "unknown" among its reader features or among its writer features.
C2_UnknownFeatureRejected ==
    (/\ call.op = "try_new"
     /\ \/ has_reader_feature(unwrap(call.protocol), UnknownFeature)
        \/ has_writer_feature(unwrap(call.protocol), UnknownFeature))
    => ~result.ok

\* every check of the construction contract passes on (metadata, protocol)
AllChecksPass(metadata, protocol) ==
    /\ parse_schema(metadata).ok
    /\ ensure_read_supported(protocol).ok
    /\ LET schema == parse_schema(metadata).value
           mode == column_mapping_mode(protocol, parse_table_properties(metadata))
       IN  /\ validate_schema_column_mapping(schema, mode).ok
           /\ validate_timestamp_ntz_feature_support(schema, protocol).ok
           /\ validate_variant_type_feature_support(schema, protocol).ok

\* C3: try_new returns Ok exactly when schema parsing, the protocol read
\* support check and the three structural validators all pass.
C3_OkIffAllChecksPass ==
    call.op = "try_new"
    => (result.ok <=> AllChecksPass(unwrap(call.metadata), unwrap(call.protocol)))

\* C4: every configuration reached by try_new and try_new_from passes the
\* column mapping validator for its own mode and the timestamp_ntz and
\* variant validators for its own protocol, and is what try_new returns
\* for its own metadata, protocol, table root and version.
C4_ConfigsPassConstructionChecks ==
    \A c \in Configs :
        /\ validate_schema_column_mapping(c.schema, c.column_mapping_mode).ok
        /\ validate_timestamp_ntz_feature_support(c.schema, c.protocol).ok
        /\ validate_variant_type_feature_support(c.schema, c.protocol).ok
        /\ try_new(c.metadata, c.protocol, c.table_root, c.version).result = Ok(c)

\* a protocol-only update of a table with a timestamp_ntz column succeeded
C4_Witness ==
    /\ call.op = "try_new_from"
    /\ call.metadata = None
    /\ call.protocol # None
    /\ result.ok
    /\ result.value.schema[1].type = "timestamp_ntz"

\* C5: try_new_from with neither metadata nor protocol returns Ok with the
\* given version and every other field equal to the input's, and runs no
\* construction step.
C5_VersionOnlyUpdate ==
    (call.op = "try_new_from" /\ call.metadata = None /\ call.protocol = None)
    => /\ result.ok
       /\ result.value.version = call.version
       /\ result.value.metadata = tc.metadata
       /\ result.value.protocol = tc.protocol
       /\ result.value.schema = tc.schema
       /\ result.value.table_properties = tc.table_properties
       /\ result.value.column_mapping_mode = tc.column_mapping_mode
       /\ result.value.table_root = tc.table_root
       /\ steps = <<>>

\* a version-only update moved the version
C5_Witness ==
    /\ call.op = "try_new_from"
    /\ call.metadata = None
    /\ call.protocol = None
    /\ result.ok
    /\ result.value.version # tc.version

\* C6: with a replacement metadata or protocol, try_new_from returns what
\* try_new returns on the replacements (the input's field where none is
\* given), the input's table root and the new version; an Ok result
\* reports those, with table properties derived from the new metadata.
C6_UpdateIsTryNew ==
    (call.op = "try_new_from" /\ (call.metadata # None \/ call.protocol # None))
    => /\ result = try_new(CallMetadata, CallProtocol, tc.table_root,
                           call.version).result
       /\ result.ok =>
            /\ result.value.metadata = CallMetadata
            /\ result.value.protocol = CallProtocol
            /\ result.value.table_properties = parse_table_properties(CallMetadata)
            /\ result.value.version = call.version
            /\ result.value.table_root = tc.table_root

\* an update replaced both metadata and protocol by different ones
C6_Witness ==
    /\ call.op = "try_new_from"
    /\ call.metadata # None
    /\ call.protocol # None
    /\ result.ok
    /\ result.value.metadata # tc.metadata
    /\ result.value.protocol # tc.protocol
    /\ result.value.table_properties # tc.table_properties
    /\ result.value.version # tc.version

\* C7: try_new_from leaves the configuration it is given as it was, whether
\* it returns Ok or Err; the predicates give the same answers on it.
C7_InputUntouched ==
    [][call'.op = "try_new_from"
       => /\ tc' = Held(Newest)
          /\ is_cdf_read_supported(tc') = is_cdf_read_supported(Held(Newest))
          /\ is_deletion_vector_supported(tc')
                = is_deletion_vector_supported(Held(Newest))
          /\ is_deletion_vector_enabled(tc')
                = is_deletion_vector_enabled(Held(Newest))]_vars

\* an update to another version failed and the input is still in hand
C7_Witness ==
    /\ call.op = "try_new_from"
    /\ ~result.ok
    /\ tc # NoConfig
    /\ tc.version # call.version

\* C8: is_deletion_vector_supported is true exactly at reader version 3
\* with deletionVectors among the reader features and writer version 7 with
\* deletionVectors among the writer features.
C8_DeletionVectorSupported ==
    call.op = "is_deletion_vector_supported"
    => result.value =
          (/\ tc.protocol.min_reader_version = 3
           /\ tc.protocol.reader_features # None
           /\ DeletionVectors \in unwrap(tc.protocol.reader_features)
           /\ tc.protocol.min_writer_version = 7
           /\ tc.protocol.writer_features # None
           /\ DeletionVectors \in unwrap(tc.protocol.writer_features))

\* deletion vectors are reported as supported
C8_Witness ==
    /\ call.op = "is_deletion_vector_supported"
    /\ result.value

\* C9: is_deletion_vector_enabled is true exactly when deletion vectors
\* are supported and the delta.enableDeletionVectors property is true; an
\* unset property counts as false; enabled is never true without supported.
C9_DeletionVectorEnabled ==
    call.op = "is_deletion_vector_enabled"
    => /\ result.value =
            (/\ is_deletion_vector_supported(tc)
             /\ tc.table_properties.enable_deletion_vectors = Some(TRUE))
       /\ result.value => is_deletion_vector_supported(tc)

\* supported, only delta.enableChangeDataFeed set: not enabled
C9_Witness ==
    /\ call.op = "is_deletion_vector_enabled"
    /\ is_deletion_vector_supported(tc)
    /\ DOMAIN tc.metadata.configuration = {EnableChangeDataFeed}
    /\ tc.metadata.configuration[EnableChangeDataFeed] = "true"
    /\ ~result.value

\* the protocol shapes change data feed can be read on
CdfProtocolSupported(protocol) ==
    \/ /\ protocol.min_reader_version = 3
       /\ protocol.reader_features # None
       /\ unwrap(protocol.reader_features) \subseteq {DeletionVectors}
    \/ /\ protocol.min_reader_version = 1
       /\ protocol.reader_features = None

\* C10 as stated: is_cdf_read_supported is true exactly when the protocol
\* shape is supported, delta.enableChangeDataFeed is true and the
\* configuration's resolved column mapping mode is none.
C10_ResolvedModeNone ==
    call.op = "is_cdf_read_supported"
    => result.value =
          (/\ CdfProtocolSupported(tc.protocol)
           /\ tc.table_properties.enable_change_data_feed = Some(TRUE)
           /\ tc.column_mapping_mode = ModeNone)

\* C10 amended: is_cdf_read_supported is true exactly when the protocol
\* shape is supported, delta.enableChangeDataFeed is true and the
\* delta.columnMapping.mode property is unset or none.
C10_ModePropertyNone ==
    call.op = "is_cdf_read_supported"
    => result.value =
          (/\ CdfProtocolSupported(tc.protocol)
           /\ tc.table_properties.enable_change_data_feed = Some(TRUE)
           /\ tc.table_properties.column_mapping_mode \in {None, Some(ModeNone)})

\* the mode property is set but not in effect, and the answer is false
C10_Witness ==
    /\ call.op = "is_cdf_read_supported"
    /\ CdfProtocolSupported(tc.protocol)
    /\ tc.table_properties.enable_change_data_feed = Some(TRUE)
    /\ tc.column_mapping_mode = ModeNone
    /\ tc.table_properties.column_mapping_mode = Some(ModeName)
    /\ ~result.value

\* C11: is_append_only_supported is true exactly at writer version 7 with
\* appendOnly among the writer features, or at writer versions 2 to 6;
\* is_append_only_enabled is true exactly when it is supported and the
\* delta.appendOnly property is true.
C11_AppendOnly ==
    /\ call.op = "is_append_only_supported"
       => result.value =
             (\/ /\ tc.protocol.min_writer_version = 7
                 /\ tc.protocol.writer_features # None
                 /\ AppendOnly \in unwrap(tc.protocol.writer_features)
              \/ /\ tc.protocol.min_writer_version >= 2
                 /\ tc.protocol.min_writer_version <= 6)
    /\ call.op = "is_append_only_enabled"
       => result.value =
             (/\ is_append_only_supported(tc)
              /\ tc.table_properties.append_only = Some(TRUE))

\* append-only is enabled on a writer version 7 table
C11_Witness ==
    /\ call.op = "is_append_only_enabled"
    /\ tc.protocol.min_writer_version = 7
    /\ result.value

\* C12: is_invariants_supported is true exactly at writer version 7 with
\* invariants among the writer features, or at writer versions 2 to 6,
\* whatever the table properties and the schema are.
C12_InvariantsSupported ==
    call.op = "is_invariants_supported"
    => result.value =
          (\/ /\ tc.protocol.min_writer_version = 7
              /\ tc.protocol.writer_features # None
              /\ Invariants \in unwrap(tc.protocol.writer_features)
           \/ /\ tc.protocol.min_writer_version >= 2
              /\ tc.protocol.min_writer_version <= 6)

\* invariants are supported through the writer feature, on a schema that
\* has no invariant
C12_Witness ==
    /\ call.op = "is_invariants_supported"
    /\ tc.protocol.min_writer_version = 7
    /\ ~has_invariants(tc.schema)
    /\ result.value

\* C13: is_v2_checkpoint_write_supported is true only at reader version 3
\* and writer version 7 with v2Checkpoint among the reader features and
\* among the writer features.
C13_V2CheckpointNeedsVersions ==
    (call.op = "is_v2_checkpoint_write_supported" /\ result.value)
    => /\ tc.protocol.min_reader_version = 3
       /\ tc.protocol.min_writer_version = 7
       /\ has_reader_feature(tc.protocol, V2Checkpoint)
       /\ has_writer_feature(tc.protocol, V2Checkpoint)

\* C14: is_in_commit_timestamps_supported is true exactly at writer version
\* 7 with inCommitTimestamp among the writer features, whatever the reader
\* side is; is_in_commit_timestamps_enabled is true exactly when it is
\* supported and delta.enableInCommitTimestamps is true.
C14_InCommitTimestamps ==
    /\ call.op = "is_in_commit_timestamps_supported"
       => result.value =
             (/\ tc.protocol.min_writer_version = 7
              /\ tc.protocol.writer_features # None
              /\ InCommitTimestamp \in unwrap(tc.protocol.writer_features))
    /\ call.op = "is_in_commit_timestamps_enabled"
       => result.value =
             (/\ is_in_commit_timestamps_supported(tc)
              /\ tc.table_properties.enable_in_commit_timestamps = Some(TRUE))

\* supported with the property unset: not enabled
C14_Witness ==
    /\ call.op = "is_in_commit_timestamps_enabled"
    /\ is_in_commit_timestamps_supported(tc)
    /\ tc.table_properties.enable_in_commit_timestamps = None
    /\ ~result.value

\* C15: in_commit_timestamp_enablement returns Ok(None) whenever in-commit
\* timestamps are not supported or the enabling property is unset or false,
\* whether or not the enablement version and timestamp are present.
C15_EnablementAbsent ==
    (/\ call.op = "in_commit_timestamp_enablement"
     /\ \/ ~is_in_commit_timestamps_supported(tc)
        \/ tc.table_properties.enable_in_commit_timestamps # Some(TRUE))
    => result = Ok(None)

\* not enabled, with both enablement properties present
C15_Witness ==
    /\ call.op = "in_commit_timestamp_enablement"
    /\ ~is_in_commit_timestamps_enabled(tc)
    /\ tc.table_properties.in_commit_timestamp_enablement_version # None
    /\ tc.table_properties.in_commit_timestamp_enablement_timestamp # None
    /\ result = Ok(None)

\* C16: with in-commit timestamps enabled and both enablement properties
\* present, in_commit_timestamp_enablement returns Ok(Some((version,
\* timestamp))) with those two values in that order.
C16_EnablementPresent ==
    (/\ call.op = "in_commit_timestamp_enablement"
     /\ is_in_commit_timestamps_enabled(tc)
     /\ tc.table_properties.in_commit_timestamp_enablement_version # None
     /\ tc.table_properties.in_commit_timestamp_enablement_timestamp # None)
    => result =
          Ok(Some(<<unwrap(tc.table_properties.in_commit_timestamp_enablement_version),
                    unwrap(tc.table_properties.in_commit_timestamp_enablement_timestamp)>>))

\* version 5 and timestamp 100 give (5, 100)
C16_Witness ==
    /\ call.op = "in_commit_timestamp_enablement"
    /\ get(tc.metadata.configuration, InCommitTimestampEnablementVersion)
          = Some("5")
    /\ get(tc.metadata.configuration, InCommitTimestampEnablementTimestamp)
          = Some("100")
    /\ result = Ok(Some(<<5, 100>>))

\* C17: with in-commit timestamps enabled and an enablement property
\* missing, in_commit_timestamp_enablement returns a generic error whose
\* message names what is missing: the timestamp, the version, or both.
C17_EnablementMissing ==
    (/\ call.op = "in_commit_timestamp_enablement"
     /\ is_in_commit_timestamps_enabled(tc)
     /\ \/ tc.table_properties.in_commit_timestamp_enablement_version = None
        \/ tc.table_properties.in_commit_timestamp_enablement_timestamp = None)
    => /\ ~result.ok
       /\ result.kind = "Generic"
       /\ result.msg[2] =
            IF tc.table_properties.in_commit_timestamp_enablement_version # None
            THEN "Enablement timestamp is not present"
            ELSE IF tc.table_properties.in_commit_timestamp_enablement_timestamp # None
            THEN "Enablement version is not present"
            ELSE "Enablement version and timestamp are not present."

\* enabled with only delta.enableInCommitTimestamps set: both are missing
C17_Witness ==
    /\ call.op = "in_commit_timestamp_enablement"
    /\ DOMAIN tc.metadata.configuration = {EnableInCommitTimestamps}
    /\ ~result.ok
    /\ result.msg[2] = "Enablement version and timestamp are not present."

\* C18: ensure_write_supported returns the error of the protocol's writer
\* feature check when that fails; otherwise the Unsupported error "Column
\* invariants are not yet supported" exactly when is_invariants_supported
\* is true and the schema has an invariant, and Ok in every other case.
\* The configuration is the same after the call.
C18_EnsureWriteSupported ==
    [][call'.op = "ensure_write_supported"
       => LET self == Held(call'.src)
              supported == protocol_ensure_write_supported(self.protocol)
          IN  /\ tc' = self
              /\ ~supported.ok => result' = supported
              /\ supported.ok =>
                    result' =
                       IF is_invariants_supported(self) /\ has_invariants(self.schema)
                       THEN Err("Unsupported", "Column invariants are not yet supported")
                       ELSE Ok(TRUE)]_vars

\* the writer feature check fails on a table whose invariants are in use
C18_Witness ==
    /\ call.op = "ensure_write_supported"
    /\ ~protocol_ensure_write_supported(tc.protocol).ok
    /\ is_invariants_supported(tc)
    /\ has_invariants(tc.schema)
    /\ result = protocol_ensure_write_supported(tc.protocol)

\* C19 as stated: ensure_write_supported never returns Ok when the schema
\* has an invariant, whatever the writer version and writer features are.
C19_InvariantsAlwaysRejected ==
    (call.op = "ensure_write_supported" /\ has_invariants(tc.schema))
    => ~result.ok

\* C19 amended: ensure_write_supported never returns Ok when the schema has
\* an invariant and the protocol supports invariants (writer version 7 with
\* the invariants feature, or writer versions 2 to 6).
C19_SupportedInvariantsRejected ==
    (/\ call.op = "ensure_write_supported"
     /\ has_invariants(tc.schema)
     /\ \/ /\ tc.protocol.min_writer_version = 7
           /\ has_writer_feature(tc.protocol, Invariants)
        \/ tc.protocol.min_writer_version \in 2..6)
    => ~result.ok

\* a writer version 2 table with an invariant passes the writer feature
\* check and is rejected for its invariant
C19_Witness ==
    /\ call.op = "ensure_write_supported"
    /\ has_invariants(tc.schema)
    /\ tc.protocol.min_writer_version = 2
    /\ result = Err("Unsupported", "Column invariants are not yet supported")

\* the Unsupported error of the timestamp_ntz validation
TimestampNtzError ==
    Err("Unsupported",
        "Table contains TIMESTAMP_NTZ columns but does not have the required 'timestampNtz' feature in reader and writer features")

\* the schema of the last try_new call has a timestamp_ntz field
CallSchemaHasTimestampNtz ==
    /\ call.op = "try_new"
    /\ parse_schema(unwrap(call.metadata)).ok
    /\ \E i \in 1..Len(parse_schema(unwrap(call.metadata)).value) :
          parse_schema(unwrap(call.metadata)).value[i].type = "timestamp_ntz"

\* timestampNtz is among the reader and the writer features of the last
\* try_new call
CallDeclaresTimestampNtz ==
    /\ has_reader_feature(unwrap(call.protocol), TimestampWithoutTimezone)
    /\ has_writer_feature(unwrap(call.protocol), TimestampWithoutTimezone)

\* the checks of try_new other than the timestamp_ntz one pass
CallOtherChecksPass ==
    LET metadata == unwrap(call.metadata)
        protocol == unwrap(call.protocol)
        schema == parse_schema(metadata).value
        mode == column_mapping_mode(protocol, parse_table_properties(metadata))
    IN  /\ validate_schema_column_mapping(schema, mode).ok
        /\ validate_variant_type_feature_support(schema, protocol).ok

\* C20 as stated: on a schema with a timestamp_ntz field try_new fails with
\* the Unsupported error naming 'timestampNtz' unless the feature is in
\* both feature lists; with it in both and the other checks passing,
\* try_new succeeds.
C20_TimestampNtzError ==
    CallSchemaHasTimestampNtz
    => IF CallDeclaresTimestampNtz
       THEN CallOtherChecksPass => result.ok
       ELSE result = TimestampNtzError

\* the column mapping validation of the last try_new call passes
CallColumnMappingPasses ==
    LET metadata == unwrap(call.metadata)
        protocol == unwrap(call.protocol)
    IN  validate_schema_column_mapping(
            parse_schema(metadata).value,
            column_mapping_mode(protocol, parse_table_properties(metadata))).ok

\* C20 amended: on a schema with a timestamp_ntz field try_new fails unless
\* the feature is in both feature lists, and the error is the Unsupported
\* error naming 'timestampNtz' when the column mapping validation, which
\* runs first, passes; with the feature in both lists and the other checks
\* passing, try_new succeeds.
C20_TimestampNtzErrorAfterColumnMapping ==
    CallSchemaHasTimestampNtz
    => IF CallDeclaresTimestampNtz
       THEN CallOtherChecksPass => result.ok
       ELSE /\ ~result.ok
            /\ CallColumnMappingPasses => result = TimestampNtzError

\* the feature is among the reader features only, and try_new fails with
\* the timestamp_ntz error
C20_Witness ==
    /\ CallSchemaHasTimestampNtz
    /\ has_reader_feature(unwrap(call.protocol), TimestampWithoutTimezone)
    /\ ~has_writer_feature(unwrap(call.protocol), TimestampWithoutTimezone)
    /\ result = TimestampNtzError

\* the Unsupported error of the variant validation
VariantError ==
    Err("Unsupported",
        "Table contains VARIANT columns but does not have the required 'variantType' feature in reader and writer features")

\* the schema of the last try_new call has a variant field
CallSchemaHasVariant ==
    /\ call.op = "try_new"
    /\ parse_schema(unwrap(call.metadata)).ok
    /\ \E i \in 1..Len(parse_schema(unwrap(call.metadata)).value) :
          parse_schema(unwrap(call.metadata)).value[i].type = "variant"

\* variantType is among the reader and the writer features of the last
\* try_new call
CallDeclaresVariant ==
    /\ has_reader_feature(unwrap(call.protocol), VariantType)
    /\ has_writer_feature(unwrap(call.protocol), VariantType)

\* the checks of try_new that run before the variant one pass
CallEarlierChecksPass ==
    LET metadata == unwrap(call.metadata)
        protocol == unwrap(call.protocol)
        schema == parse_schema(metadata).value
        mode == column_mapping_mode(protocol, parse_table_properties(metadata))
    IN  /\ validate_schema_column_mapping(schema, mode).ok
        /\ validate_timestamp_ntz_feature_support(schema, protocol).ok

\* C21 as stated: on a schema with a variant field try_new fails with the
\* Unsupported error naming 'variantType' unless the feature is in both
\* feature lists; with it in both and the other checks passing, try_new
\* succeeds.
C21_VariantError ==
    CallSchemaHasVariant
    => IF CallDeclaresVariant
       THEN CallEarlierChecksPass => result.ok
       ELSE result = VariantError

\* C21 amended: on a schema with a variant field try_new fails unless the
\* feature is in both feature lists, and the error is the Unsupported error
\* naming 'variantType' when the column mapping and timestamp_ntz
\* validations, which run first, pass; with the feature in both lists and
\* the other checks passing, try_new succeeds.
C21_VariantErrorAfterEarlierChecks ==
    CallSchemaHasVariant
    => IF CallDeclaresVariant
       THEN CallEarlierChecksPass => result.ok
       ELSE /\ ~result.ok
            /\ CallEarlierChecksPass => result = VariantError

\* the feature is among the writer features only, and try_new fails with
\* the variant error
C21_Witness ==
    /\ CallSchemaHasVariant
    /\ ~has_reader_feature(unwrap(call.protocol), VariantType)
    /\ has_writer_feature(unwrap(call.protocol), VariantType)
    /\ result = VariantError

\* the checks of construction, in the order the claim gives them
CheckNames ==
    <<"parse_schema", "validate_schema_column_mapping",
      "validate_timestamp_ntz_feature_support",
      "validate_variant_type_feature_support">>

\* what each check makes of the arguments of the last try_new call, in
\* that order; the validators work on a schema, so that nothing follows a
\* schema that does not parse
CallCheckOutcomes ==
    LET metadata == unwrap(call.metadata)
        protocol == unwrap(call.protocol)
        parsed == parse_schema(metadata)
        mode == column_mapping_mode(protocol, parse_table_properties(metadata))
    IN  IF ~parsed.ok THEN <<parsed>>
        ELSE <<parsed,
               validate_schema_column_mapping(parsed.value, mode),
               validate_timestamp_ntz_feature_support(parsed.value, protocol),
               validate_variant_type_feature_support(parsed.value, protocol)>>

\* the checks that fail on the arguments of the last try_new call
CallFailingChecks ==
    {i \in 1..Len(CallCheckOutcomes) : ~CallCheckOutcomes[i].ok}

\* the checks the last call ran, in the order it ran them
ChecksRun ==
    SelectSeq(steps, LAMBDA step : \E i \in 1..Len(CheckNames) :
                                      step = CheckNames[i])

\* C23: try_new runs schema parsing, column mapping validation,
\* timestamp_ntz validation and variant validation in that order and stops
\* at the first that fails: its error is returned and no later check runs;
\* when none fails all four have run and try_new succeeds.
C23_FirstFailureWins ==
    call.op = "try_new"
    => IF CallFailingChecks = {}
       THEN result.ok /\ ChecksRun = CheckNames
       ELSE LET first == CHOOSE i \in CallFailingChecks :
                             \A j \in CallFailingChecks : i <= j
            IN  /\ result = CallCheckOutcomes[first]
                /\ ChecksRun = SubSeq(CheckNames, 1, first)

\* both the timestamp_ntz and the variant validation would fail, and the
\* error is the timestamp_ntz one with the variant validation not run
C23_Witness ==
    /\ call.op = "try_new"
    /\ CallFailingChecks = {3, 4}
    /\ result = TimestampNtzError
    /\ ChecksRun = SubSeq(CheckNames, 1, 3)

\* C24: a configuration reached from try_new(m0, p0, root, v0) by successful
\* try_new_from calls is the one try_new returns on the metadata and the
\* protocol most recently supplied, the original table root and the last
\* version: its schema, table properties and column mapping mode are those
\* of its own metadata and protocol, and its table root is the original one.
C24_LatestInputsOnly ==
    HasConfig(Newest)
    => LET config == Held(Newest)
           table_properties == parse_table_properties(config.metadata)
       IN  /\ Ok(config) = try_new(latest.metadata, latest.protocol,
                                   latest.table_root, latest.version).result
           /\ config.metadata = latest.metadata
           /\ config.protocol = latest.protocol
           /\ config.version = latest.version
           /\ config.table_root = latest.table_root
           /\ Ok(config.schema) = parse_schema(config.metadata)
           /\ config.table_properties = table_properties
           /\ config.column_mapping_mode =
                  column_mapping_mode(config.protocol, table_properties)

\* a try_new_from call that supplied a protocol and a version only has
\* succeeded on a table at file:///b/: the configuration returned goes
\* back to the metadata of an earlier call, the new protocol and the
\* original root
C24_Witness ==
    /\ call.op = "try_new_from"
    /\ call.metadata = None
    /\ call.protocol # None
    /\ result.ok
    /\ tc.protocol # unwrap(call.protocol)
    /\ tc.version # call.version
    /\ latest = Supplied(tc.metadata, unwrap(call.protocol), "file:///b/",
                         call.version)
    /\ result.value.table_root = "file:///b/"

\* the statuses get_file and list_directory take as success
SuccessStatuses == {OK, CREATED, NO_CONTENT, PARTIAL_CONTENT}

\* C25: get_opts returns NotFound only when the status was 404; any other
\* failing status, whatever the response body and the URL, gives Generic;
\* a success status gives the file content.
C25_NotFoundOnlyOn404 ==
    http # NoHttp /\ http.call.op = "get_opts"
    => IF http.response.status \in SuccessStatuses
       THEN /\ http.returned.ok
            /\ http.returned.value.payload = <<http.response.body>>
       ELSE /\ ~http.returned.ok
            /\ http.returned.kind =
                 IF http.response.status = NOT_FOUND THEN "NotFound"
                 ELSE "Generic"

\* C26: list gives an empty stream with no error only when the directory
\* request succeeded with no entries to yield or failed with 404; any
\* other failing status gives one Generic error item.
C26_EmptyListOnlyOn404 ==
    http # NoHttp /\ http.call.op = "list"
    => /\ http.returned = <<>>
          => \/ /\ http.response.status \in SuccessStatuses
                /\ is_some(http.response.contents)
                /\ \A i \in 1..Len(unwrap(http.response.contents)) :
                       unwrap(http.response.contents)[i].is_directory
             \/ http.response.status = NOT_FOUND
       /\ http.response.status \notin SuccessStatuses \cup {NOT_FOUND}
          => /\ Len(http.returned) = 1
             /\ ~http.returned[1].ok
             /\ http.returned[1].kind = "Generic"

\* the versions up to the snapshot's whose commit has an action for the
\* domain of the last call
CallDomainVersions ==
    {version \in 0..unwrap(ffi.snapshot).version :
        ffi.call.domain \in DOMAIN ffi.log[version + 1]}

\* the most recent of them
CallDomainLatest ==
    CHOOSE version \in CallDomainVersions :
        \A other \in CallDomainVersions : other <= version

====
